---- MODULE Spec2Model ----
(***************************************************************************)
(* Model of Argus.py: the tokenizer (re.findall), the paragraph extractor  *)
(* (generate_paragraph) and the driver loop (paragraph_based_storytelling) *)
(* with its publisher and inference client.                                *)
(*                                                                         *)
(* Python strings are modelled as sequences of one-character strings.      *)
(* Python's None and float('inf') are modelled as the empty tuple <<>>,    *)
(* a number n as the one-element tuple <<n>>.                              *)
(***************************************************************************)
EXTENDS Integers, Sequences, FiniteSets, TLC

VARIABLES
    \* ---- driver loop (paragraph_based_storytelling) ----
    ENABLE_POSTING,      \* module global, fixed by the command line
    max_time_minutes,    \* --time argument: <<>> (None) or <<n>>
    now,                 \* time.time(), in seconds
    start_time,          \* <<>> until line 185 has run
    end_time,            \* <<>> = float('inf'), <<t>> otherwise
    pc,                  \* position of the single thread of control
    session_id,
    sequence_number,     \* the caller's counter (line 172)
    context_paragraphs,
    total_paragraphs,
    paragraph,           \* the caller's current paragraph (line 192)
    \* ---- frame of display_and_send_paragraph_word_by_word ----
    phase,               \* which call is active: "para" (195) or "sep" (208)
    words,               \* tokens of the for loop not yet processed
    seq_local,           \* the callee's own sequence_number parameter
    send_success,
    \* ---- the outside world ----
    ollama_outcome,      \* outcome of the last inference call
    sent,                \* payloads handed to requests.post(POST_URL), in order
    displayed,           \* tokens printed, each with the number it consumed
    stop_reason,         \* "none", "time", "interrupt"
    reported,            \* <<>> or <<summary record>> (lines 216-217)
    probe_outcome,       \* branch taken by the connectivity probe (lines 158-166)
    \* ---- inputs and outputs of the pure functions ----
    fpc, text, result

vars == <<ENABLE_POSTING, max_time_minutes, now, start_time, end_time, pc,
          session_id, sequence_number, context_paragraphs, total_paragraphs,
          paragraph, phase, words, seq_local, send_success, ollama_outcome,
          sent, displayed, stop_reason, reported, probe_outcome, fpc, text, result>>

drivervars == <<ENABLE_POSTING, max_time_minutes, now, start_time, end_time, pc,
          session_id, sequence_number, context_paragraphs, total_paragraphs,
          paragraph, phase, words, seq_local, send_success, ollama_outcome,
          sent, displayed, stop_reason, reported, probe_outcome>>

purevars == <<fpc, text, result>>

None == <<>>
Inf == <<>>

(***************************************************************************)
(* Characters                                                              *)
(***************************************************************************)
WordChars == {"a", "b"}
SpaceChars == {" ", "\n"}
OtherChars == {".", ","}
Chars == WordChars \cup SpaceChars \cup OtherChars

IsWord(c) == c \in WordChars
IsSpace(c) == c \in SpaceChars

Max(S) == CHOOSE x \in S : \A y \in S : y <= x
Min(S) == CHOOSE x \in S : \A y \in S : x <= y

\* All sequences over A of length 0..n
RECURSIVE SeqsUpTo(_, _)
SeqsUpTo(A, n) ==
    IF n = 0 THEN {<<>>}
    ELSE LET shorter == SeqsUpTo(A, n - 1)
         IN shorter \cup {Append(s, c) : s \in {t \in shorter : Len(t) = n - 1}, c \in A}

\* The sequence of n copies of c
Repeat(c, n) == [i \in 1..n |-> c]

\* "".join(tokens)
RECURSIVE Concat(_)
Concat(ts) == IF ts = <<>> THEN <<>> ELSE Head(ts) \o Concat(Tail(ts))

(***************************************************************************)
(* Tokenizer: re.findall(r'\b\w+\b|\s+|[^\w\s]', paragraph)                *)
(* A position i in 0..Len(s) lies between s[i] and s[i+1].                 *)
(***************************************************************************)
\* \b : exactly one of the two neighbours is a word character
WordBoundary(s, i) ==
    LET before == i > 0 /\ IsWord(s[i])
        after == i < Len(s) /\ IsWord(s[i + 1])
    IN before # after

\* \b\w+\b at position i: the end position of the greedy match, or -1
MatchWord(s, i) ==
    LET ends == {j \in (i + 1)..Len(s) :
                    /\ \A k \in (i + 1)..j : IsWord(s[k])
                    /\ WordBoundary(s, j)}
    IN IF WordBoundary(s, i) /\ ends # {} THEN Max(ends) ELSE -1

\* \s+ at position i
MatchSpace(s, i) ==
    LET ends == {j \in (i + 1)..Len(s) : \A k \in (i + 1)..j : IsSpace(s[k])}
    IN IF ends # {} THEN Max(ends) ELSE -1

\* [^\w\s] at position i
MatchOther(s, i) ==
    IF i < Len(s) /\ ~IsWord(s[i + 1]) /\ ~IsSpace(s[i + 1]) THEN i + 1 ELSE -1

\* A tokenizer that has lost the whitespace alternative
MatchAtNoSpace(s, i) ==
    IF MatchWord(s, i) # -1 THEN MatchWord(s, i) ELSE MatchOther(s, i)

\* The alternation, tried left to right
MatchAt(s, i) ==
    IF MatchWord(s, i) # -1 THEN MatchWord(s, i)
    ELSE IF MatchSpace(s, i) # -1 THEN MatchSpace(s, i)
    ELSE MatchOther(s, i)

\* findall scanning from position i: a character where nothing matches is
\* skipped
RECURSIVE FindAllFrom(_, _)
FindAllFrom(s, i) ==
    IF i >= Len(s) THEN <<>>
    ELSE LET m == MatchAt(s, i)
         IN IF m = -1 THEN FindAllFrom(s, i + 1)
            ELSE <<SubSeq(s, i + 1, m)>> \o FindAllFrom(s, m)

Tokenize(s) == FindAllFrom(s, 0)

(***************************************************************************)
(* Paragraph extractor: lines 118-129 of generate_paragraph                *)
(***************************************************************************)
MinParagraphChars == 150

\* A search that ignores the start offset
FindPeriodSpaceAnywhere(s, start) ==
    LET hits == {p \in 0..(Len(s) - 2) : s[p + 1] = "." /\ s[p + 2] = " "}
    IN IF hits = {} THEN -1 ELSE Min(hits)

\* str.find(". ", start): 0-based index of the first occurrence at or after
\* start, or -1
FindPeriodSpace(s, start) ==
    LET hits == {p \in start..(Len(s) - 2) : s[p + 1] = "." /\ s[p + 2] = " "}
    IN IF hits = {} THEN -1 ELSE Min(hits)

\* A search for the first full stop instead of the last
FindFirstPeriod(s) ==
    LET hits == {p \in 0..(Len(s) - 1) : s[p + 1] = "."}
    IN IF hits = {} THEN -1 ELSE Min(hits)

\* str.rfind(".")
RFindPeriod(s) ==
    LET hits == {p \in 0..(Len(s) - 1) : s[p + 1] = "."}
    IN IF hits = {} THEN -1 ELSE Max(hits)

\* A slice that stops one character early
PrefixExclusive(s, k) == SubSeq(s, 1, IF k - 1 < Len(s) THEN k - 1 ELSE Len(s))

\* s[:k]
Prefix(s, k) == SubSeq(s, 1, IF k < Len(s) THEN k ELSE Len(s))

\* An extractor that gives up on a text without a full stop
ExtractParagraphOrNothing(new_text) ==
    LET paragraph_end == FindPeriodSpace(new_text, MinParagraphChars)
        last_period == RFindPeriod(new_text)
    IN IF paragraph_end = -1
       THEN Prefix(new_text, last_period + 1)
       ELSE Prefix(new_text, paragraph_end + 1)

ExtractParagraph(new_text) ==
    LET paragraph_end == FindPeriodSpace(new_text, MinParagraphChars)
        last_period == RFindPeriod(new_text)
    IN IF paragraph_end = -1
       THEN IF last_period # -1 THEN Prefix(new_text, last_period + 1)
            ELSE new_text
       ELSE Prefix(new_text, paragraph_end + 1)

(***************************************************************************)
(* Bounds of the model                                                     *)
(***************************************************************************)
MaxTokLen == 4          \* longest tokenizer input
MaxHead == 2            \* extractor input: free characters before the filler
MaxTail == 4            \* extractor input: free characters after the filler
FillSlack == 3          \* extractor input: filler lengths reach this far below 150
MaxParagraphs == 6      \* iterations the driver loop may start
TickSeconds == 30       \* granularity of the clock
MaxTime == 90           \* the clock stops advancing here

(***************************************************************************)
(* Inference client: generate_with_ollama                                  *)
(***************************************************************************)
\* "200": status 200 with a response field; "200_nofield": status 200,
\* field absent; "status": any other status; "error": an exception
OllamaOutcomes == {"200", "200_nofield", "status", "error"}

\* An inference client that forgets to look at the status code
GenerateIgnoringStatus(outcome, response_text) ==
    IF outcome \in {"200", "status"} THEN response_text ELSE <<>>

generate_with_ollama(outcome, response_text) ==
    IF outcome = "200" THEN response_text ELSE <<>>

\* Texts the inference service may answer with
RawTexts == {<<"a", ".", " ", "b">>}

(***************************************************************************)
(* Publisher: send_word_to_server                                          *)
(***************************************************************************)
PostOutcomes == {"200", "status", "timeout", "connection", "other"}

send_word_to_server(outcome) == outcome = "200"

\* A publisher that reuses the session id of the connectivity probe
PayloadUnderProbeSession(word, seq, sid) ==
    [word |-> word, sequence |-> seq, session_id |-> "test-connection"]

\* lines 57-62; the timestamp field is left out, nothing reads it back
Payload(word, seq, sid) == [word |-> word, sequence |-> seq, session_id |-> sid]

TestSession == "test-connection"
SessionIds == {"uuid1", "uuid2"}

\* The payloads of the run, without the startup probe
RunSent == SelectSeq(sent, LAMBDA r : r.session_id # TestSession)

(***************************************************************************)
(* Context window: lines 199-202                                           *)
(***************************************************************************)
ContextSize == 5

\* s[-n:]
LastN(s, n) == IF Len(s) <= n THEN s ELSE SubSeq(s, Len(s) - n + 1, Len(s))

\* A window that keeps the first five paragraphs instead of the last five
AppendContextKeepFirst(ctx, p) ==
    LET appended == Append(ctx, p)
    IN IF Len(appended) > ContextSize THEN SubSeq(appended, 1, ContextSize)
       ELSE appended

AppendContext(ctx, p) ==
    LET appended == Append(ctx, p)
    IN IF Len(appended) > ContextSize THEN LastN(appended, ContextSize)
       ELSE appended

(***************************************************************************)
(* Driver loop: paragraph_based_storytelling                               *)
(***************************************************************************)
Durations == {None, <<0>>, <<1>>}

\* line 186: a duration of None or 0 is falsy
EndTime(start, minutes) ==
    IF minutes = None THEN Inf
    ELSE IF minutes[1] = 0 THEN Inf
    ELSE <<start + minutes[1] * 60>>

\* A loop condition that still starts a paragraph exactly at the deadline
BeforeDeadlineInclusive(t, deadline) ==
    IF deadline = Inf THEN TRUE ELSE t <= deadline[1]

\* line 190: time.time() < end_time
BeforeDeadline(t, deadline) ==
    IF deadline = Inf THEN TRUE ELSE t < deadline[1]

TryRegion == {"loop", "generate", "for", "posted", "sleep", "update"}

PureIdle == fpc = "idle" /\ text = <<>> /\ result = <<>>

Init ==
    /\ ENABLE_POSTING \in BOOLEAN
    /\ max_time_minutes \in Durations
    /\ now = 0
    /\ start_time = None
    /\ end_time = Inf
    /\ pc = "startup"
    /\ session_id = "unset"
    /\ sequence_number = 0
    /\ context_paragraphs = <<>>
    /\ total_paragraphs = 0
    /\ paragraph = <<>>
    /\ phase = "none"
    /\ words = <<>>
    /\ seq_local = 0
    /\ send_success = TRUE
    /\ ollama_outcome = "none"
    /\ sent = <<>>
    /\ displayed = <<>>
    /\ stop_reason = "none"
    /\ reported = None
    /\ probe_outcome = "none"
    /\ PureIdle

\* lines 158-166: status 200, any other status, or an exception
ProbeBranch(outcome) ==
    IF outcome \in {"200", "status"} THEN outcome ELSE "error"

\* A startup that gives up when the connectivity probe does not succeed
StartupStopOnProbeFailure ==
    /\ pc = "startup"
    /\ IF ENABLE_POSTING
       THEN /\ sent' = Append(sent, Payload(<<"t", "e", "s", "t">>, 0, TestSession))
            /\ \E o \in PostOutcomes : probe_outcome' = ProbeBranch(o)
       ELSE /\ sent' = sent
            /\ probe_outcome' = "skipped"
    /\ session_id' \in SessionIds
    /\ sequence_number' = 0
    /\ context_paragraphs' = <<>>
    /\ start_time' = <<now>>
    /\ end_time' = EndTime(now, max_time_minutes)
    /\ total_paragraphs' = 0
    /\ pc' = IF probe_outcome' \in {"200", "skipped"} THEN "loop" ELSE "summary"
    /\ UNCHANGED <<ENABLE_POSTING, max_time_minutes, now, paragraph, phase, words,
                   seq_local, send_success, ollama_outcome, displayed, stop_reason,
                   reported, fpc, text, result>>

\* lines 142-187: the connectivity probe, then the initialisation
Startup ==
    /\ pc = "startup"
    /\ IF ENABLE_POSTING
       THEN /\ sent' = Append(sent, Payload(<<"t", "e", "s", "t">>, 0, TestSession))
            /\ \E o \in PostOutcomes : probe_outcome' = ProbeBranch(o)
       ELSE /\ sent' = sent
            /\ probe_outcome' = "skipped"
    /\ session_id' \in SessionIds
    /\ sequence_number' = 0
    /\ context_paragraphs' = <<>>
    /\ start_time' = <<now>>
    /\ end_time' = EndTime(now, max_time_minutes)
    /\ total_paragraphs' = 0
    /\ pc' = "loop"
    /\ UNCHANGED <<ENABLE_POSTING, max_time_minutes, now, paragraph, phase, words,
                   seq_local, send_success, ollama_outcome, displayed, stop_reason,
                   reported, fpc, text, result>>

\* line 190, condition true
LoopEnter ==
    /\ pc = "loop"
    /\ BeforeDeadline(now, end_time)
    /\ total_paragraphs < MaxParagraphs
    /\ pc' = "generate"
    /\ UNCHANGED <<ENABLE_POSTING, max_time_minutes, now, start_time, end_time,
                   session_id, sequence_number, context_paragraphs, total_paragraphs,
                   paragraph, phase, words, seq_local, send_success, ollama_outcome,
                   sent, displayed, stop_reason, reported, fpc, text, result, probe_outcome>>

\* line 190, condition false
LoopExit ==
    /\ pc = "loop"
    /\ ~BeforeDeadline(now, end_time)
    /\ stop_reason' = "time"
    /\ pc' = "summary"
    /\ UNCHANGED <<ENABLE_POSTING, max_time_minutes, now, start_time, end_time,
                   session_id, sequence_number, context_paragraphs, total_paragraphs,
                   paragraph, phase, words, seq_local, send_success, ollama_outcome,
                   sent, displayed, reported, fpc, text, result, probe_outcome>>

\* line 192 (generate_paragraph) and the call of line 195 up to its for loop
Generate ==
    /\ pc = "generate"
    /\ \E o \in OllamaOutcomes, t \in RawTexts :
          /\ ollama_outcome' = o
          /\ paragraph' = ExtractParagraph(generate_with_ollama(o, t))
    /\ phase' = "para"
    /\ words' = Tokenize(paragraph')
    /\ seq_local' = sequence_number
    /\ pc' = "for"
    /\ UNCHANGED <<ENABLE_POSTING, max_time_minutes, now, start_time, end_time,
                   session_id, sequence_number, context_paragraphs, total_paragraphs,
                   send_success, sent, displayed, stop_reason, reported,
                   fpc, text, result, probe_outcome>>

\* lines 95-99: publish the token at the head of the loop
SendWord ==
    /\ pc = "for"
    /\ words # <<>>
    /\ ENABLE_POSTING
    /\ \E o \in PostOutcomes : send_success' = send_word_to_server(o)
    /\ sent' = Append(sent, Payload(Head(words), seq_local, session_id))
    /\ pc' = "posted"
    /\ UNCHANGED <<ENABLE_POSTING, max_time_minutes, now, start_time, end_time,
                   session_id, sequence_number, context_paragraphs, total_paragraphs,
                   paragraph, phase, words, seq_local, ollama_outcome, displayed,
                   stop_reason, reported, fpc, text, result, probe_outcome>>

\* A counter that advances only when the publish succeeded
AdvanceOnlyOnSuccess(n, posting, success) ==
    IF posting /\ ~success THEN n ELSE n + 1

\* line 101
Advance(n, posting, success) == n + 1

\* A for loop that publishes the same token again after a failed publish
AdvanceWordRetrying ==
    IF pc = "posted" /\ ~send_success
    THEN /\ pc' = "for"
         /\ UNCHANGED <<ENABLE_POSTING, max_time_minutes, now, start_time, end_time,
                        session_id, sequence_number, context_paragraphs,
                        total_paragraphs, paragraph, phase, words, seq_local,
                        send_success, ollama_outcome, sent, displayed, stop_reason,
                        reported, fpc, text, result, probe_outcome>>
    ELSE /\ \/ pc = "posted"
            \/ pc = "for" /\ words # <<>> /\ ~ENABLE_POSTING
         /\ seq_local' = Advance(seq_local, ENABLE_POSTING, send_success)
         /\ displayed' = Append(displayed, [word |-> Head(words), seq |-> seq_local])
         /\ pc' = "sleep"
         /\ UNCHANGED <<ENABLE_POSTING, max_time_minutes, now, start_time, end_time,
                        session_id, sequence_number, context_paragraphs,
                        total_paragraphs, paragraph, phase, words, send_success,
                        ollama_outcome, sent, stop_reason, reported,
                        fpc, text, result, probe_outcome>>

\* lines 101-102: count and display the token
AdvanceWord ==
    /\ \/ pc = "posted"
       \/ pc = "for" /\ words # <<>> /\ ~ENABLE_POSTING
    /\ seq_local' = Advance(seq_local, ENABLE_POSTING, send_success)
    /\ displayed' = Append(displayed, [word |-> Head(words), seq |-> seq_local])
    /\ pc' = "sleep"
    /\ UNCHANGED <<ENABLE_POSTING, max_time_minutes, now, start_time, end_time,
                   session_id, sequence_number, context_paragraphs, total_paragraphs,
                   paragraph, phase, words, send_success, ollama_outcome, sent,
                   stop_reason, reported, fpc, text, result, probe_outcome>>

\* line 103, then the next iteration of the for loop
Sleep ==
    /\ pc = "sleep"
    /\ words' = Tail(words)
    /\ pc' = "for"
    /\ UNCHANGED <<ENABLE_POSTING, max_time_minutes, now, start_time, end_time,
                   session_id, sequence_number, context_paragraphs, total_paragraphs,
                   paragraph, phase, seq_local, send_success, ollama_outcome, sent,
                   displayed, stop_reason, reported, fpc, text, result, probe_outcome>>

\* line 105 and the assignment of lines 195 / 208
ReturnFromDisplay ==
    /\ pc = "for"
    /\ words = <<>>
    /\ sequence_number' = seq_local
    /\ pc' = IF phase = "para" THEN "update" ELSE "loop"
    /\ UNCHANGED <<ENABLE_POSTING, max_time_minutes, now, start_time, end_time,
                   session_id, context_paragraphs, total_paragraphs, paragraph,
                   phase, words, seq_local, send_success, ollama_outcome, sent,
                   displayed, stop_reason, reported, fpc, text, result, probe_outcome>>

\* An iteration that only prints the newline of line 207 and does not pass
\* it through the per-token path
UpdateContextBareNewline ==
    /\ pc = "update"
    /\ context_paragraphs' = AppendContext(context_paragraphs, paragraph)
    /\ total_paragraphs' = total_paragraphs + 1
    /\ phase' = "sep"
    /\ words' = <<>>
    /\ seq_local' = sequence_number
    /\ pc' = "for"
    /\ UNCHANGED <<ENABLE_POSTING, max_time_minutes, now, start_time, end_time,
                   session_id, sequence_number, paragraph, send_success,
                   ollama_outcome, sent, displayed, stop_reason, reported,
                   fpc, text, result, probe_outcome>>

\* lines 199-208: window update, paragraph count, call for the separator.
\* The bare print of a newline at line 207 carries no sequence number and is
\* not a token of the stream: displayed holds the tokens of line 102 only.
UpdateContext ==
    /\ pc = "update"
    /\ context_paragraphs' = AppendContext(context_paragraphs, paragraph)
    /\ total_paragraphs' = total_paragraphs + 1
    /\ phase' = "sep"
    /\ words' = Tokenize(<<"\n">>)
    /\ seq_local' = sequence_number
    /\ pc' = "for"
    /\ UNCHANGED <<ENABLE_POSTING, max_time_minutes, now, start_time, end_time,
                   session_id, sequence_number, paragraph, send_success,
                   ollama_outcome, sent, displayed, stop_reason, reported,
                   fpc, text, result, probe_outcome>>

\* KeyboardInterrupt inside the try block of lines 189-213: the frame of the
\* callee, and with it seq_local, is discarded
InterruptCaught ==
    /\ pc \in TryRegion
    /\ stop_reason' = "interrupt"
    /\ pc' = "summary"
    /\ UNCHANGED <<ENABLE_POSTING, max_time_minutes, now, start_time, end_time,
                   session_id, sequence_number, context_paragraphs, total_paragraphs,
                   paragraph, phase, words, seq_local, send_success, ollama_outcome,
                   sent, displayed, reported, fpc, text, result, probe_outcome>>

\* KeyboardInterrupt outside the try block (lines 142-188 and 215-217):
\* nothing catches it and the process ends with a traceback
InterruptUncaught ==
    /\ pc \in {"startup", "summary"}
    /\ stop_reason' = "interrupt"
    /\ pc' = "crashed"
    /\ UNCHANGED <<ENABLE_POSTING, max_time_minutes, now, start_time, end_time,
                   session_id, sequence_number, context_paragraphs, total_paragraphs,
                   paragraph, phase, words, seq_local, send_success, ollama_outcome,
                   sent, displayed, reported, fpc, text, result, probe_outcome>>

\* lines 215-217
Summary ==
    /\ pc = "summary"
    /\ reported' = <<[paragraphs |-> total_paragraphs,
                      duration |-> now - start_time[1],
                      sent |-> sequence_number,
                      session_id |-> session_id]>>
    /\ pc' = "done"
    /\ UNCHANGED <<ENABLE_POSTING, max_time_minutes, now, start_time, end_time,
                   session_id, sequence_number, context_paragraphs, total_paragraphs,
                   paragraph, phase, words, seq_local, send_success, ollama_outcome,
                   sent, displayed, stop_reason, fpc, text, result, probe_outcome>>

\* the wall clock advances while the process lives
Tick ==
    /\ pc \notin {"done", "crashed"}
    /\ now + TickSeconds <= MaxTime
    /\ now' = now + TickSeconds
    /\ UNCHANGED <<ENABLE_POSTING, max_time_minutes, start_time, end_time, pc,
                   session_id, sequence_number, context_paragraphs, total_paragraphs,
                   paragraph, phase, words, seq_local, send_success, ollama_outcome,
                   sent, displayed, stop_reason, reported, fpc, text, result, probe_outcome>>

Next ==
    \/ Startup
    \/ LoopEnter
    \/ LoopExit
    \/ Generate
    \/ SendWord
    \/ AdvanceWord
    \/ Sleep
    \/ ReturnFromDisplay
    \/ UpdateContext
    \/ InterruptCaught
    \/ InterruptUncaught
    \/ Summary
    \/ Tick

Spec == Init /\ [][Next]_vars

(***************************************************************************)
(* The pure functions on enumerated inputs                                 *)
(***************************************************************************)
DriverIdle ==
    /\ ENABLE_POSTING = TRUE
    /\ max_time_minutes = None
    /\ now = 0
    /\ start_time = None
    /\ end_time = Inf
    /\ pc = "idle"
    /\ session_id = "unset"
    /\ sequence_number = 0
    /\ context_paragraphs = <<>>
    /\ total_paragraphs = 0
    /\ paragraph = <<>>
    /\ phase = "none"
    /\ words = <<>>
    /\ seq_local = 0
    /\ send_success = TRUE
    /\ ollama_outcome = "none"
    /\ sent = <<>>
    /\ displayed = <<>>
    /\ stop_reason = "none"
    /\ reported = None
    /\ probe_outcome = "none"

TokInputs == SeqsUpTo(Chars, MaxTokLen)

TokInit ==
    /\ DriverIdle
    /\ fpc = "input"
    /\ text \in TokInputs
    /\ result = <<>>

\* line 92
DoTokenize ==
    /\ fpc = "input"
    /\ result' = Tokenize(text)
    /\ fpc' = "tokenized"
    /\ UNCHANGED <<text, drivervars>>

TokNext == DoTokenize

SpecTok == TokInit /\ [][TokNext]_vars

\* Raw texts around the 150-character offset: a short free head, a run of
\* one filler character, a short free tail
ParaChars == {"a", ".", " "}
FillChars == {"a", "."}
FillLengths == {0} \cup ((MinParagraphChars - FillSlack)..MinParagraphChars)

ParaInputs ==
    {h \o Repeat(c, n) \o t :
        h \in SeqsUpTo(ParaChars, MaxHead), c \in FillChars,
        n \in FillLengths, t \in SeqsUpTo(ParaChars, MaxTail)}

ParaInit ==
    /\ DriverIdle
    /\ fpc = "input"
    /\ text \in ParaInputs
    /\ result = <<>>

\* lines 118-129
DoExtract ==
    /\ fpc = "input"
    /\ result' = ExtractParagraph(text)
    /\ fpc' = "extracted"
    /\ UNCHANGED <<text, drivervars>>

ParaNext == DoExtract

SpecPara == ParaInit /\ [][ParaNext]_vars

(***************************************************************************)
(* Properties                                                              *)
(***************************************************************************)
Separator == <<"\n">>

DisplayedWords == [i \in 1..Len(displayed) |-> displayed[i].word]

\* The token stream of a list of completed paragraphs: the tokens of each
\* paragraph followed by its separator
RECURSIVE StreamOf(_)
StreamOf(ps) ==
    IF ps = <<>> THEN <<>>
    ELSE Tokenize(Head(ps)) \o <<Separator>> \o StreamOf(Tail(ps))

\* C1: the n-th token produced, in generation order, carries sequence
\* number n-1, whether it was displayed only or also published, and
\* whatever the publish calls returned: no gap, no repeat, no reordering.
C1_ContiguousSequence ==
    LET run == RunSent
    IN /\ \A i \in 1..Len(displayed) : displayed[i].seq = i - 1
       /\ \A i \in 1..Len(run) : run[i].sequence = i - 1
       /\ \A i \in 1..Len(run) :
             i <= Len(displayed) => run[i].word = displayed[i].word
       /\ (pc = "loop" /\ total_paragraphs <= ContextSize)
             => DisplayedWords = StreamOf(context_paragraphs)

\* a token displayed after its publish failed, in a later paragraph
C1_Witness ==
    /\ ENABLE_POSTING
    /\ pc = "sleep"
    /\ ~send_success
    /\ total_paragraphs >= 1
    /\ Len(displayed) >= 4

\* C2: after an interrupt the summary's "tokens sent" total equals the
\* number of sequence numbers consumed before the interrupt, and the
\* session id reported is the one the tokens were published with.
C2_SummaryKeepsCounter ==
    (reported # None /\ stop_reason = "interrupt")
        => /\ reported[1].sent = Len(displayed)
           /\ reported[1].session_id = session_id
           /\ \A i \in 1..Len(RunSent) : RunSent[i].session_id = reported[1].session_id

\* C3: an interrupt that arrives during the startup probe or anywhere in
\* the running loop leads to the summary.
C3_InterruptAlwaysCaught ==
    [][(stop_reason = "none" /\ stop_reason' = "interrupt"
            /\ pc \in ({"startup"} \cup TryRegion))
        => pc' = "summary"]_vars

\* C4: an append makes the window's length min(previous + 1, 5), keeps the
\* retained paragraphs in order with the new one last, and evicts the
\* earliest one; the window never holds more than 5 paragraphs.
C4_ContextWindow ==
    /\ [](Len(context_paragraphs) <= ContextSize)
    /\ [][/\ (pc = "update" /\ pc' = "for") =>
               LET old == context_paragraphs
                   new == context_paragraphs'
               IN /\ Len(new) = (IF Len(old) + 1 < ContextSize THEN Len(old) + 1
                                 ELSE ContextSize)
                  /\ new[Len(new)] = paragraph
                  /\ IF Len(old) = ContextSize
                     THEN \A i \in 1..(ContextSize - 1) : new[i] = old[i + 1]
                     ELSE \A i \in 1..Len(old) : new[i] = old[i]
          /\ (pc \notin {"update", "startup"}) =>
               context_paragraphs' = context_paragraphs]_vars

\* a full window after an eviction, whose ends differ
C4_Witness ==
    /\ Len(context_paragraphs) = ContextSize
    /\ total_paragraphs > ContextSize
    /\ context_paragraphs[1] # context_paragraphs[ContextSize]

\* C5: concatenating the tokenizer's tokens in order gives back the input.
C5_TokensReconstruct ==
    fpc = "tokenized" => Concat(result) = text

\* a word, a whitespace run and punctuation in one input
C5_Witness ==
    /\ fpc = "tokenized"
    /\ text = <<"a", " ", "\n", ".">>
    /\ Len(result) = 3

PeriodSpaceAt(s, p) == p + 2 <= Len(s) /\ s[p + 1] = "." /\ s[p + 2] = " "

\* C6: with a period followed by a space at some index >= 150, the result
\* is the prefix ending with the first such period.
C6_PeriodAfterOffset ==
    fpc = "extracted" =>
        \A p \in MinParagraphChars..Len(text) :
            (/\ PeriodSpaceAt(text, p)
             /\ \A q \in MinParagraphChars..(p - 1) : ~PeriodSpaceAt(text, q))
            => result = SubSeq(text, 1, p + 1)

\* a period-space at 150 or later, another before 150 and another after
C6_Witness ==
    /\ fpc = "extracted"
    /\ \E p \in MinParagraphChars..Len(text) :
          /\ PeriodSpaceAt(text, p)
          /\ \E q \in 0..(MinParagraphChars - 1) : PeriodSpaceAt(text, q)
          /\ \E q \in (p + 1)..Len(text) : PeriodSpaceAt(text, q)
          /\ Len(result) = p + 1

\* C7: a text without any period is returned unchanged.
C7_NoPeriod ==
    (fpc = "extracted" /\ \A i \in 1..Len(text) : text[i] # ".")
        => result = text

\* a long text without a period
C7_Witness ==
    /\ fpc = "extracted"
    /\ Len(text) > MinParagraphChars
    /\ \A i \in 1..Len(text) : text[i] # "."
    /\ \E i \in 1..Len(text) : text[i] = " "

\* C8: with posting disabled nothing is ever sent, every token is displayed
\* and consumes one sequence number, and the summary reports the number of
\* tokens produced.
C8_PostingDisabled ==
    ~ENABLE_POSTING =>
        /\ sent = <<>>
        /\ \A i \in 1..Len(displayed) : displayed[i].seq = i - 1
        /\ reported # None => reported[1].sent = Len(displayed)

InferenceFailed == ollama_outcome \in {"status", "error"}

\* C9: a failed inference call gives the empty text and the empty
\* paragraph; the loop completes the iteration, counts the paragraph and
\* returns to the loop check.
C9_InferenceFailure ==
    /\ []((InferenceFailed /\ pc \in TryRegion) => paragraph = <<>>)
    /\ []((InferenceFailed /\ pc = "loop")
            => /\ total_paragraphs >= 1
               /\ context_paragraphs[Len(context_paragraphs)] = <<>>
               /\ displayed[Len(displayed)].word = Separator)
    /\ [][(InferenceFailed' /\ stop_reason' = "none" /\ now' = now) =>
            /\ pc = "generate" => (pc' = "for" /\ words' = <<>>)
            /\ (pc = "for" /\ phase = "para") =>
                  (pc' = "update" /\ displayed' = displayed)
            /\ pc = "update" =>
                  (/\ total_paragraphs' = total_paragraphs + 1
                   /\ pc' = "for"
                   /\ words' = <<Separator>>)
            /\ (pc = "for" /\ phase = "sep" /\ words = <<>>) => pc' = "loop"
            /\ pc \in (TryRegion \ {"loop"}) => pc' \in TryRegion]_vars

\* back at the loop check after an iteration whose inference call failed
C9_Witness ==
    /\ InferenceFailed
    /\ pc = "loop"
    /\ total_paragraphs >= 2
    /\ context_paragraphs[Len(context_paragraphs)] = <<>>

PastDeadline == IF end_time = Inf THEN FALSE ELSE now >= end_time[1]

\* C10: the deadline is looked at only at the top of the loop: a paragraph
\* in progress is finished after the deadline, no paragraph is started at
\* or after the deadline, and the loop check then stops the run by time.
C10_DeadlineAtLoopTop ==
    /\ [](stop_reason = "time" =>
            /\ sequence_number = Len(displayed)
            /\ Len(context_paragraphs) =
                  (IF total_paragraphs < ContextSize THEN total_paragraphs
                   ELSE ContextSize)
            /\ total_paragraphs >= 1 =>
                  displayed[Len(displayed)].word = Separator)
    /\ [][/\ (pc = "loop" /\ pc' = "generate") => ~PastDeadline
          /\ (pc = "loop" /\ PastDeadline /\ pc' # pc /\ stop_reason' # "interrupt")
                => (pc' = "summary" /\ stop_reason' = "time")
          /\ (stop_reason = "none" /\ stop_reason' = "time") => pc = "loop"
          /\ (pc \in (TryRegion \ {"loop"}) /\ stop_reason' # "interrupt")
                => pc' \in TryRegion]_vars

\* a token of a paragraph displayed after the deadline has passed
C10_Witness ==
    /\ PastDeadline
    /\ pc = "sleep"
    /\ phase = "para"

HasPeriod(s) == \E i \in 1..Len(s) : s[i] = "."

NoPeriodSpaceFromOffset(s) ==
    \A p \in MinParagraphChars..Len(s) : ~PeriodSpaceAt(s, p)

\* C14: without a period-space at any index >= 150 but with some period in
\* the text, the result is the prefix ending with the last period,
\* whether the text is shorter than 150 or has its period-space pairs
\* before offset 150.
C14_FallbackLastPeriod ==
    (fpc = "extracted" /\ NoPeriodSpaceFromOffset(text) /\ HasPeriod(text))
        => \E q \in 0..(Len(text) - 1) :
              /\ text[q + 1] = "."
              /\ \A r \in (q + 2)..Len(text) : text[r] # "."
              /\ result = SubSeq(text, 1, q + 1)

\* a long text whose only period-space pair lies before offset 150, with a
\* later period and text after it
C14_Witness ==
    /\ fpc = "extracted"
    /\ Len(text) > MinParagraphChars
    /\ NoPeriodSpaceFromOffset(text)
    /\ \E q \in 0..(MinParagraphChars - 1) :
          /\ PeriodSpaceAt(text, q)
          /\ q + 1 < Len(result)
    /\ Len(result) < Len(text)

\* C17: the extracted paragraph is a prefix of the raw text, and when the
\* text has a period the paragraph is non-empty and ends with a period.
C17_PrefixEndingInPeriod ==
    fpc = "extracted" =>
        /\ Len(result) <= Len(text)
        /\ \A i \in 1..Len(result) : result[i] = text[i]
        /\ HasPeriod(text) => (result # <<>> /\ result[Len(result)] = ".")

\* a proper prefix cut at a period
C17_Witness ==
    /\ fpc = "extracted"
    /\ HasPeriod(text)
    /\ result # <<>>
    /\ Len(result) < Len(text)
    /\ Len(text) < MinParagraphChars

\* C11: with posting enabled each token causes exactly one publish call; a
\* failed call neither stops the loop nor is repeated: the token is then
\* displayed, the counter advances by one, and the next publish call
\* carries the next sequence number.
C11_FailedPublishNotRetried ==
    /\ [](ENABLE_POSTING =>
            LET run == RunSent
            IN /\ Len(run) = Len(displayed)
                     \/ (Len(run) = Len(displayed) + 1
                           /\ pc \in {"posted", "summary", "done", "crashed"})
               /\ \A i \in 1..Len(displayed) :
                     run[i] = Payload(displayed[i].word, i - 1, session_id))
    /\ [][/\ (pc = "posted" /\ ~send_success /\ stop_reason' = "none" /\ now' = now)
                => /\ pc' = "sleep"
                   /\ sent' = sent
                   /\ seq_local' = seq_local + 1
                   /\ displayed' = Append(displayed,
                                          [word |-> Head(words), seq |-> seq_local])
          /\ (pc = "for" /\ pc' = "posted")
                => sent' = Append(sent, Payload(Head(words), Len(displayed), session_id))
          /\ (~send_success /\ pc \in {"posted", "sleep"} /\ stop_reason' # "interrupt")
                => pc' \in TryRegion]_vars

\* the token whose publish failed is displayed and counted, and the loop
\* stands before the next token
C11_Witness ==
    /\ ENABLE_POSTING
    /\ pc = "for"
    /\ ~send_success
    /\ words # <<>>
    /\ Len(displayed) >= 1
    /\ Len(RunSent) = Len(displayed)
    /\ seq_local = Len(displayed)

\* C12: the session id is set once at startup and never changes; every
\* token record published carries it, and the summary reports it.
C12_SessionImmutable ==
    /\ [](\A i \in 2..Len(sent) : sent[i].session_id = session_id)
    /\ []((ENABLE_POSTING /\ sent # <<>>) => sent[1].word = <<"t", "e", "s", "t">>)
    /\ [](reported # None => reported[1].session_id = session_id)
    /\ [](pc \in (TryRegion \cup {"summary", "done"}) => session_id \in SessionIds)
    /\ [][pc # "startup" => session_id' = session_id]_vars

\* a finished run that published several tokens
C12_Witness ==
    /\ pc = "done"
    /\ reported # None
    /\ Len(sent) >= 4
    /\ reported[1].session_id = "uuid2"

\* Number of tokens of a list of paragraphs
RECURSIVE TokenCount(_)
TokenCount(ps) ==
    IF ps = <<>> THEN 0 ELSE Len(Tokenize(Head(ps))) + TokenCount(Tail(ps))

\* C16: every completed iteration passes exactly one separator token
\* through the per-token path, after the paragraph's tokens, and it takes
\* one sequence number: after k iterations the counter is the number of
\* tokens of the k paragraphs plus k, and the paragraph counter is k.
C16_SeparatorPerIteration ==
    /\ [](pc = "loop" =>
            /\ sequence_number = Len(displayed)
            /\ total_paragraphs <= ContextSize =>
                  /\ Len(context_paragraphs) = total_paragraphs
                  /\ sequence_number = TokenCount(context_paragraphs) + total_paragraphs
            /\ total_paragraphs >= 1 =>
                  displayed[Len(displayed)] =
                      [word |-> Separator, seq |-> sequence_number - 1])
    /\ [](pc = "update" =>
            /\ sequence_number = Len(displayed)
            /\ LastN(DisplayedWords, Len(Tokenize(paragraph))) = Tokenize(paragraph))
    /\ [][/\ (pc = "update" /\ pc' = "for") =>
                (words' = <<Separator>> /\ total_paragraphs' = total_paragraphs + 1)
          /\ (pc = "for" /\ phase = "sep" /\ pc' = "loop") =>
                sequence_number' = sequence_number + 1
          /\ (pc \notin {"update", "startup"}) =>
                total_paragraphs' = total_paragraphs]_vars

\* two completed iterations, at least one of them with a non-empty paragraph
C16_Witness ==
    /\ pc = "loop"
    /\ total_paragraphs = 2
    /\ TokenCount(context_paragraphs) >= 2
    /\ sequence_number = TokenCount(context_paragraphs) + 2

\* C13: with any configured duration, 0 minutes included, the loop starts
\* no paragraph once the configured number of minutes has elapsed since the
\* start, so that the next loop check stops the run by time.
C13_ConfiguredDurationStops ==
    [][(pc = "loop" /\ pc' = "generate") =>
          IF max_time_minutes = None THEN TRUE
          ELSE now < start_time[1] + max_time_minutes[1] * 60]_vars

ProbePayload == Payload(<<"t", "e", "s", "t">>, 0, TestSession)

\* C15: whatever branch the connectivity probe takes, the loop is entered
\* with sequence number 0, an empty context window and a newly generated
\* session id; the probe is sent under its own session id and the first
\* token of the run still carries sequence number 0.
C15_ProbeNeverBlocks ==
    /\ [][(pc = "startup" /\ stop_reason' = "none" /\ now' = now) =>
            /\ pc' = "loop"
            /\ sequence_number' = 0
            /\ context_paragraphs' = <<>>
            /\ total_paragraphs' = 0
            /\ displayed' = <<>>
            /\ session_id' \in SessionIds
            /\ session_id' # TestSession
            /\ IF ENABLE_POSTING
               THEN /\ sent' = <<ProbePayload>>
                    /\ probe_outcome' \in {"200", "status", "error"}
               ELSE sent' = <<>>]_vars
    /\ [](sent # <<>> => (sent[1] = ProbePayload /\ sent[1].session_id # session_id))
    /\ [](\A i \in 2..Len(sent) :
            /\ sent[i].sequence = i - 2
            /\ sent[i].session_id # TestSession)

\* after a probe that raised, the first token of the run has been published
\* with sequence number 0 under the session id of the run
C15_Witness ==
    /\ probe_outcome = "error"
    /\ pc = "posted"
    /\ context_paragraphs = <<>>
    /\ Len(sent) = 2
    /\ sent[2].sequence = 0
    /\ sent[2].session_id = session_id

====
